---- MODULE Spec2Model ----
(***************************************************************************)
(* A model of the nREPL server of ClojureRS (src/src/nrepl_server.rs):     *)
(* the connection loop of Server::run, decode_request / decode_dict over   *)
(* the bencode token stream, Server::run_request on the session registry   *)
(* and random_uuid.                                                         *)
(*                                                                         *)
(* A byte is a one-character string; the byte 0xFF (which occurs in no     *)
(* well-formed UTF-8 text) is written "0xFF".  A Rust String or byte slice *)
(* is the sequence of its bytes.                                           *)
(***************************************************************************)
EXTENDS Integers, Sequences, FiniteSets, TLC

VARIABLES
    pc,        \* where Server::run stands
    sessions,  \* Server.sessions: SessionId -> Repl
    buffer,    \* to_decode: the bytes of the last read
    req,       \* the result of decode_request on them
    resp,      \* the Response run_request returned
    out,       \* the byte strings written to the stream, in order
    reads,     \* the non-empty reads so far
    panic,     \* the message of the panic that ended the process, if any
    repls,     \* the Repl values created so far
    hist,      \* the ids of the Clone requests run_request has handled, in order
    bytes_received,  \* what the last stream.read returned, -1 before it returns
    accepts,   \* the calls of listener.accept() that returned a connection
    tpc,       \* where a call of TrimLFn::invoke stands
    targs,     \* the arguments of that call
    tret       \* the Value it returned

serverVars ==
    <<pc, sessions, buffer, req, resp, out, reads, panic, repls, hist,
      bytes_received, accepts>>

trimlVars == <<tpc, targs, tret>>

vars == <<serverVars, trimlVars>>

(***************************************************************************)
(* Bounds of the model.                                                    *)
(***************************************************************************)
\* Non-empty reads the client side of the connection delivers at most.
MaxReads == 3
\* Chars of the longest sample string TrimLFn::invoke is called with.
MaxStrLen == 3

(***************************************************************************)
(* Program constants.                                                      *)
(***************************************************************************)
\* let mut buffer = [0; 512];
BufSize == 512
\* let base = 16_usize;
Base == 16

(***************************************************************************)
(* Bytes and strings.                                                      *)
(***************************************************************************)
NonUtf8Byte == "0xFF"

\* The bytes of the model in increasing byte value.
ByteOrder ==
    <<"-", "0", "1", "2", "3", "4", "5", "6", "7", "8", "9", ":",
      "a", "b", "c", "d", "e", "f", "g", "h", "i", "j", "k", "l", "m",
      "n", "o", "p", "q", "r", "s", "t", "u", "v", "w", "x", "y", "z",
      NonUtf8Byte>>

Ord(c) == CHOOSE i \in 1..Len(ByteOrder) : ByteOrder[i] = c

DecDigits == <<"0", "1", "2", "3", "4", "5", "6", "7", "8", "9">>

IsDigit(c) == \E i \in 1..10 : DecDigits[i] = c

DigitVal(c) == (CHOOSE i \in 1..10 : DecDigits[i] = c) - 1

\* Lexicographic order of byte slices: a >= b.
RECURSIVE SliceGeq(_, _)
SliceGeq(a, b) ==
    IF b = <<>> THEN TRUE
    ELSE IF a = <<>> THEN FALSE
    ELSE IF Ord(Head(a)) # Ord(Head(b)) THEN Ord(Head(a)) > Ord(Head(b))
    ELSE SliceGeq(Tail(a), Tail(b))

\* str::from_utf8 succeeds on the slice.
IsUtf8(s) == \A i \in 1..Len(s) : s[i] # NonUtf8Byte

\* The decimal digits of a natural number.
RECURSIVE Dec(_)
Dec(n) == IF n < 10 THEN <<DecDigits[n + 1]>>
          ELSE Dec(n \div 10) \o <<DecDigits[(n % 10) + 1]>>

S_op == <<"o", "p">>
S_id == <<"i", "d">>
S_clone == <<"c", "l", "o", "n", "e">>
S_done == <<"d", "o", "n", "e">>
S_status == <<"s", "t", "a", "t", "u", "s">>
S_new_session == <<"n", "e", "w", "-", "s", "e", "s", "s", "i", "o", "n">>

\* Strings of the sample requests.
S_abc == <<"a", "b", "c">>
S_x == <<"x">>
S_eval == <<"e", "v", "a", "l">>
S_code == <<"c", "o", "d", "e">>
S_session == <<"s", "e", "s", "s", "i", "o", "n">>

(***************************************************************************)
(* The bencode token stream of bendy's Decoder, as decode_request and      *)
(* decode_dict drive it.  An offset is the 1-based index of the next byte. *)
(***************************************************************************)
\* Decoder::take_int: the index of the terminator that ends the integer which
\* starts at cur, 0 when the bytes are no integer or end before it.
RECURSIVE TakeInt(_, _, _, _)
TakeInt(b, cur, st, term) ==
    IF cur > Len(b) THEN 0
    ELSE LET c == b[cur] IN
         CASE st = "Start" ->
                  IF c = "-" THEN TakeInt(b, cur + 1, "Sign", term)
                  ELSE IF c = "0" THEN TakeInt(b, cur + 1, "Zero", term)
                  ELSE IF IsDigit(c) THEN TakeInt(b, cur + 1, "Digits", term)
                  ELSE 0
           [] st = "Zero" -> IF c = term THEN cur ELSE 0
           [] st = "Sign" ->
                  IF IsDigit(c) /\ c # "0" THEN TakeInt(b, cur + 1, "Digits", term)
                  ELSE 0
           [] OTHER ->
                  IF IsDigit(c) THEN TakeInt(b, cur + 1, "Digits", term)
                  ELSE IF c = term THEN cur
                  ELSE 0

\* usize::from_str_radix(ival, 10) on the digits take_int accepted.
RECURSIVE ParseUsize(_)
ParseUsize(ds) ==
    IF ds = <<>> THEN 0
    ELSE 10 * ParseUsize(SubSeq(ds, 1, Len(ds) - 1)) + DigitVal(ds[Len(ds)])

Tok(k, s, next) == [k |-> k, s |-> s, next |-> next]

\* Decoder::raw_next_token at an offset inside the source.  A length of more
\* than three digits exceeds every buffer of the server (BufSize), so the
\* chunk cannot be taken, whether or not the length fits a usize.
RawNextToken(b, off) ==
    LET c == b[off] IN
    IF c = "e" THEN Tok("End", <<>>, off + 1)
    ELSE IF c = "l" THEN Tok("List", <<>>, off + 1)
    ELSE IF c = "d" THEN Tok("Dict", <<>>, off + 1)
    ELSE IF c = "i" THEN
        LET p == TakeInt(b, off + 1, "Start", "e") IN
        IF p = 0 THEN Tok("Error", <<>>, off)
        ELSE Tok("Num", SubSeq(b, off + 1, p - 1), p + 1)
    ELSE IF IsDigit(c) THEN
        LET p == TakeInt(b, off, "Start", ":") IN
        IF p = 0 \/ p - off > 3 THEN Tok("Error", <<>>, off)
        ELSE LET len == ParseUsize(SubSeq(b, off, p - 1)) IN
             IF p + len > Len(b) THEN Tok("Error", <<>>, off)
             ELSE Tok("String", SubSeq(b, p + 1, p + len), p + len + 1)
    ELSE Tok("Error", <<>>, off)

\* Decoder::next_token: the end of the source is its own outcome.
NextToken(b, off) ==
    IF off > Len(b) THEN Tok("Eof", <<>>, off) ELSE RawNextToken(b, off)

(***************************************************************************)
(* decode_dict and decode_request.                                         *)
(***************************************************************************)
\* HashMap::insert.
Insert(m, k, v) == [x \in (DOMAIN m) \cup {k} |-> IF x = k THEN v ELSE m[x]]

\* HashMap::new.
EmptyMap == <<>>

DictOk(m) == [tag |-> "Ok", what |-> "", map |-> m]
DictErr(e) == [tag |-> "Err", what |-> e, map |-> EmptyMap]
DictPanic(msg) == [tag |-> "Panic", what |-> msg, map |-> EmptyMap]

\* The while-let loop of decode_dict from offset off; prev is <<>> before the
\* first pair and <<key>> after a pair with that key (bendy refuses a key
\* that is not greater than the one before it).
RECURSIVE DecodeDictFrom(_, _, _, _)
DecodeDictFrom(b, off, prev, m) ==
    LET kt == NextToken(b, off) IN
    IF kt.k = "End" THEN DictOk(m)
    ELSE IF kt.k # "String" THEN DictErr("DError")
    ELSE IF prev # <<>> /\ SliceGeq(prev[1], kt.s) THEN DictErr("DError")
    ELSE LET vt == NextToken(b, kt.next) IN
         IF vt.k \in {"Error", "Eof", "End"} THEN DictErr("DError")
         ELSE IF ~IsUtf8(kt.s) THEN DictPanic("Conversion to UTF8 failed")
         ELSE IF vt.k # "String" THEN DictErr("FailedToReadValue")
         ELSE IF ~IsUtf8(vt.s) THEN DictPanic("Conversion to UTF8 failed")
         ELSE DecodeDictFrom(b, vt.next, <<kt.s>>, Insert(m, kt.s, vt.s))

decode_dict(b, off) == DecodeDictFrom(b, off, <<>>, EmptyMap)

ReqOk(id) == [tag |-> "Ok", what |-> "Clone", val |-> id]
ReqErr(e, v) == [tag |-> "Err", what |-> e, val |-> v]
ReqPanic(msg) == [tag |-> "Panic", what |-> msg, val |-> <<>>]

\* The interpretation with the session key read in preference to id.
Interpret_SessionFirst(request_dict) ==
    IF S_op \notin DOMAIN request_dict THEN ReqErr("Noop", <<>>)
    ELSE IF request_dict[S_op] = S_clone THEN
        IF S_session \in DOMAIN request_dict THEN ReqOk(request_dict[S_session])
        ELSE IF S_id \in DOMAIN request_dict THEN ReqOk(request_dict[S_id])
        ELSE ReqErr("KeyNotFound", S_id)
    ELSE ReqErr("UnknownOp", <<>>)

\* The interpretation of the decoded dictionary: the lookup of op and the
\* match on it.
Interpret(request_dict) ==
    IF S_op \notin DOMAIN request_dict THEN ReqErr("Noop", <<>>)
    ELSE IF request_dict[S_op] = S_clone THEN
        IF S_id \in DOMAIN request_dict THEN ReqOk(request_dict[S_id])
        ELSE ReqErr("KeyNotFound", S_id)
    ELSE ReqErr("UnknownOp", <<>>)

\* The offset after the End token that closes the dictionary whose pairs
\* start at off (past the source when it is not closed).
RECURSIVE DictEndFrom(_, _)
DictEndFrom(b, off) ==
    LET t == NextToken(b, off) IN
    IF t.k = "End" THEN t.next
    ELSE IF t.k \in {"Error", "Eof"} THEN Len(b) + 1
    ELSE DictEndFrom(b, t.next)

\* decode_request reading on after the first dictionary: a second request in
\* the same bytes replaces the first.
decode_request_ReadsOn(b) ==
    LET t == NextToken(b, 1) IN
    IF t.k \in {"Error", "End"} THEN ReqErr("DError", <<>>)
    ELSE IF t.k = "Eof" THEN ReqPanic("unwrap on None")
    ELSE IF t.k # "Dict" THEN ReqErr("UnexpectedObject", <<>>)
    ELSE LET d == decode_dict(b, t.next) IN
         IF d.tag = "Panic" THEN ReqPanic(d.what)
         ELSE IF d.tag = "Err" THEN ReqErr(d.what, <<>>)
         ELSE LET e == DictEndFrom(b, t.next) IN
              IF NextToken(b, e).k = "Dict" /\ decode_dict(b, e + 1).tag = "Ok"
              THEN Interpret(decode_dict(b, e + 1).map)
              ELSE Interpret(d.map)

\* decode_request without the match on the object's shape: whatever is not a
\* dictionary is read as a dictionary without pairs.
decode_request_NoShapeCheck(b) ==
    LET t == NextToken(b, 1) IN
    IF t.k \in {"Error", "End"} THEN ReqErr("DError", <<>>)
    ELSE IF t.k = "Eof" THEN ReqPanic("unwrap on None")
    ELSE IF t.k # "Dict" THEN Interpret(EmptyMap)
    ELSE LET d == decode_dict(b, t.next) IN
         IF d.tag = "Panic" THEN ReqPanic(d.what)
         ELSE IF d.tag = "Err" THEN ReqErr(d.what, <<>>)
         ELSE Interpret(d.map)

decode_request(b) ==
    LET t == NextToken(b, 1) IN
    IF t.k \in {"Error", "End"} THEN ReqErr("DError", <<>>)
    ELSE IF t.k = "Eof" THEN ReqPanic("unwrap on None")
    ELSE IF t.k # "Dict" THEN ReqErr("UnexpectedObject", <<>>)
    ELSE LET d == decode_dict(b, t.next) IN
         IF d.tag = "Panic" THEN ReqPanic(d.what)
         ELSE IF d.tag = "Err" THEN ReqErr(d.what, <<>>)
         ELSE Interpret(d.map)

(***************************************************************************)
(* The bencode encoding, as the client and Response::encode emit it.       *)
(***************************************************************************)
\* A byte string: <length>:<bytes>.
BBytes(s) == Dec(Len(s)) \o <<":">> \o s

\* A key/value pair of byte strings (emit_pair).
BPair(k, v) == BBytes(k) \o BBytes(v)

\* A dictionary around the bytes of its pairs.
BDict(body) == <<"d">> \o body \o <<"e">>

(***************************************************************************)
(* random_uuid.  A number that may exceed 32 bits is the sequence of its   *)
(* base-16 digits (nibbles), most significant first; a draw of hex_num(n)  *)
(* is a sequence of n nibbles, which ranges over 0 .. 16^n - 1.            *)
(***************************************************************************)
HexDigits ==
    <<"0", "1", "2", "3", "4", "5", "6", "7", "8", "9", "a", "b", "c", "d", "e", "f">>

RECURSIVE Pow(_, _)
Pow(b, n) == IF n = 0 THEN 1 ELSE b * Pow(b, n - 1)

RECURSIVE NibblesToInt(_)
NibblesToInt(ns) ==
    IF ns = <<>> THEN 0
    ELSE Base * NibblesToInt(SubSeq(ns, 1, Len(ns) - 1)) + ns[Len(ns)]

RECURSIVE IntToNibbles(_)
IntToNibbles(v) ==
    IF v < Base THEN <<v>> ELSE IntToNibbles(v \div Base) \o <<v % Base>>

\* Bitwise and / or of two naturals.
RECURSIVE BitAnd(_, _)
BitAnd(a, b) ==
    IF a = 0 \/ b = 0 THEN 0
    ELSE 2 * BitAnd(a \div 2, b \div 2) + (IF a % 2 = 1 /\ b % 2 = 1 THEN 1 ELSE 0)

RECURSIVE BitOr(_, _)
BitOr(a, b) ==
    IF a = 0 THEN b
    ELSE IF b = 0 THEN a
    ELSE 2 * BitOr(a \div 2, b \div 2) + (IF a % 2 = 1 \/ b % 2 = 1 THEN 1 ELSE 0)

\* The nibbles without their leading zeros, one digit at least.
RECURSIVE StripZeros(_)
StripZeros(ns) ==
    IF Len(ns) > 1 /\ ns[1] = 0 THEN StripZeros(Tail(ns)) ELSE ns

\* format!("{:x}", v) of the number with the nibbles ns: no padding, no prefix.
LowerHex(ns) == LET ds == StripZeros(ns) IN [i \in 1..Len(ds) |-> HexDigits[ds[i] + 1]]

\* format!("{:x}", v) of a number that fits the model's integers.
LowerHexInt(v) == LowerHex(IntToNibbles(v))

\* rng draws the six values of hex_num in call order: rng[1] of hex_num(8),
\* rng[2] of hex_num(4), rng[3] of hex_num(3), rng[4] of hex_num(1),
\* rng[5] of hex_num(3), rng[6] of hex_num(12).
random_uuid(rng) ==
    LET part_1 == rng[1]
        part_2 == rng[2]
        part_3_to_add == 4 * Pow(Base, 3)
        part_3 == part_3_to_add + NibblesToInt(rng[3])
        rhex == BitOr(8, BitAnd(3, NibblesToInt(rng[4])))
        part_4 == rhex + NibblesToInt(rng[5])
        part_5 == rng[6]
    IN  LowerHex(part_1) \o <<"-">> \o LowerHex(part_2) \o <<"-">>
            \o LowerHexInt(part_3) \o <<"-">> \o LowerHexInt(part_4) \o <<"-">>
            \o LowerHex(part_5)

\* The widths of the six draws.
DrawWidths == <<8, 4, 3, 1, 3, 12>>

\* Outcomes of the random source the model draws from: every draw the same
\* nibble repeated, or zeros above one low nibble.
NibbleSamples == {0, 15}

Fill(n, x) == [i \in 1..n |-> x]

Low(n, x) == [i \in 1..n |-> IF i = n THEN x ELSE 0]

RngOutcomes ==
    { [k \in 1..6 |-> Fill(DrawWidths[k], x)] : x \in NibbleSamples }
        \cup { [k \in 1..6 |-> Low(DrawWidths[k], x)] : x \in NibbleSamples }

(***************************************************************************)
(* Server::run_request and Response.                                       *)
(***************************************************************************)
\* Repl::default(): the n-th evaluator the server creates, in its default state.
ReplDefault(n) == [env |-> "default", inst |-> n]

\* Cloned with the two identifiers in each other's field.
Cloned_SwappedIds(id, new_session) ==
    [id |-> new_session, new_session |-> id, status |-> S_done]

\* Response::Cloned { id, new_session, status } with status = "done".
Cloned(id, new_session) == [id |-> id, new_session |-> new_session, status |-> S_done]

\* The registry with a check-then-insert: an existing session is kept.
RunRequestSessions_KeepExisting(s, r, n) ==
    IF r.val \in DOMAIN s THEN s ELSE Insert(s, r.val, ReplDefault(n))

\* The registry with every clone registered under a key of its own.
RunRequestSessions_NumberedKey(s, r, n) == Insert(s, r.val \o Dec(n), ReplDefault(n))

\* The registry replaced by one that holds the cloned session alone.
RunRequestSessions_ReplaceAll(s, r, n) == [k \in {r.val} |-> ReplDefault(n)]

\* The registry after run_request(r), r a Request::Clone: self.sessions.insert.
RunRequestSessions(s, r, n) == Insert(s, r.val, ReplDefault(n))

\* The value run_request(r) returns when random_uuid draws rng.
RunRequestResponse(r, rng) == Cloned(r.val, random_uuid(rng))

\* Response::encode with the status pair emitted before new-session.
Encode_StatusFirst(r) ==
    BDict(BPair(S_id, r.id) \o BPair(S_status, r.status)
              \o BPair(S_new_session, r.new_session))

\* Response::encode: the pairs id, new-session, status of a dictionary.
Encode(r) ==
    BDict(BPair(S_id, r.id) \o BPair(S_new_session, r.new_session)
              \o BPair(S_status, r.status))

NoReq == [tag |-> "None", what |-> "", val |-> <<>>]
NoResp == [id |-> <<>>, new_session |-> <<>>, status |-> <<>>]

(***************************************************************************)
(* What the client sends: the bytes one read may deliver.                  *)
(***************************************************************************)

Ids == {S_abc, S_x}

\* The keys of the sample dictionaries, in increasing byte order.
KeyOrder == <<S_code, S_id, S_op, S_session>>

KeySamples == {KeyOrder[i] : i \in 1..Len(KeyOrder)}

\* String-to-string dictionaries over the sample keys: op is clone or eval,
\* id one of Ids, and code and session are keys no operation reads.
SampleDicts ==
    UNION { { d \in [K -> Ids \cup {S_clone, S_eval}] :
                /\ S_op \in K => d[S_op] \in {S_clone, S_eval}
                /\ S_id \in K => d[S_id] \in Ids
                /\ S_code \in K => d[S_code] = S_x
                /\ S_session \in K => d[S_session] = S_abc }
            : K \in SUBSET KeySamples }

RECURSIVE EncodePairsFrom(_, _)
EncodePairsFrom(d, i) ==
    IF i > Len(KeyOrder) THEN <<>>
    ELSE (IF KeyOrder[i] \in DOMAIN d THEN BPair(KeyOrder[i], d[KeyOrder[i]]) ELSE <<>>)
             \o EncodePairsFrom(d, i + 1)

\* The canonical bencode of a sample dictionary (keys sorted).
EncodeDict(d) == BDict(EncodePairsFrom(d, 1))

CloneReq(id) == BDict(BPair(S_id, id) \o BPair(S_op, S_clone))

\* Well-formed top-level values that are not dictionaries.
NonDictInputs ==
    { <<"i", "4", "2", "e">>, <<"i", "-", "7", "e">>, BBytes(S_abc), BBytes(<<>>),
      <<"l", "e">>, <<"l">> \o BBytes(S_abc) \o <<"e">>,
      <<"l", "i", "1", "e">> \o BBytes(S_x) \o <<"e">> }

\* Dictionaries whose id value is not a byte string.
NonBytesValueInputs ==
    { BDict(BBytes(S_id) \o v \o BPair(S_op, S_clone)) :
        v \in { <<"i", "7", "e">>, <<"l", "e">>, <<"l">> \o BBytes(S_x) \o <<"e">>,
                <<"d", "e">>, BDict(BPair(S_x, S_x)) } }

\* Dictionaries with a byte string that is not UTF-8, as a value and as a key.
NonUtf8ValueInput == BDict(BPair(S_id, <<NonUtf8Byte>>) \o BPair(S_op, S_clone))

NonUtf8KeyInput == BDict(BPair(S_id, S_abc) \o BPair(<<NonUtf8Byte>>, S_x))

\* The request of the spec's scenario, its keys not in sorted order.
UnsortedCloneInput == BDict(BPair(S_op, S_clone) \o BPair(S_id, S_abc))

\* Bytes that are no bencode value, or end before the value does.
MalformedInputs ==
    { <<"x">>, <<"e">>, <<"d">>, <<"i", "0", "1", "e">>, <<"3", ":", "a", "b">>,
      <<"d", "2", ":", "i", "d", "3", ":", "a", "b">>,
      <<"d">> \o BPair(S_op, S_clone),
      BDict(<<"i", "1", "e">> \o BBytes(S_x)),
      BDict(BBytes(S_op)) }

\* Two requests that arrive in one read.
CoalescedInput == CloneReq(S_abc) \o CloneReq(S_x)

\* A clone request of 511 bytes: the longest a read may deliver unharmed.
LongCloneInput == CloneReq([i \in 1..(BufSize - 22) |-> "a"])

\* A clone request that fills the whole buffer.
OversizedInput == CloneReq([i \in 1..(BufSize - 21) |-> "a"])

Inputs ==
    { EncodeDict(d) : d \in SampleDicts }
        \cup NonDictInputs \cup NonBytesValueInputs \cup MalformedInputs
        \cup { NonUtf8ValueInput, NonUtf8KeyInput, UnsortedCloneInput,
               CoalescedInput, OversizedInput, LongCloneInput }

(***************************************************************************)
(* TrimLFn::invoke (src/src/clojure_string/triml.rs).  A char is a         *)
(* one-character string or the name of a char that has no plain spelling.  *)
(***************************************************************************)
\* No Value: invoke has not returned.
NoValue == [t |-> "None", s |-> <<>>, n |-> 0, m |-> 0, x |-> ""]

\* Value::String(s), and Values of two other types.
StringValue(s) == [t |-> "String", s |-> s, n |-> 0, m |-> 0, x |-> ""]
I32Value(i) == [t |-> "I32", s |-> <<>>, n |-> i, m |-> 0, x |-> ""]
NilValue == [t |-> "Nil", s |-> <<>>, n |-> 0, m |-> 0, x |-> ""]

\* error_message::wrong_arg_count(expected, got).
wrong_arg_count(expected, got) ==
    [t |-> "WrongArgCount", s |-> <<>>, n |-> expected, m |-> got, x |-> ""]

\* error_message::type_mismatch(TypeTag::String, &value).
type_mismatch(expected, value) ==
    [t |-> "TypeMismatch", s |-> <<>>, n |-> 0, m |-> 0, x |-> expected \o "/" \o value.t]

\* char::is_whitespace on the chars of the model: space, tab, line feed,
\* carriage return and the no-break space U+00A0.
IsWhitespace(c) == c \in {" ", "TAB", "LF", "CR", "NBSP"}

\* str::trim_end, for the sake of a variant of invoke that trims both ends.
RECURSIVE trim_end(_)
trim_end(s) ==
    IF s # <<>> /\ IsWhitespace(s[Len(s)]) THEN trim_end(SubSeq(s, 1, Len(s) - 1)) ELSE s

\* str::trim_start.
RECURSIVE trim_start(_)
trim_start(s) == IF s # <<>> /\ IsWhitespace(Head(s)) THEN trim_start(Tail(s)) ELSE s

\* invoke with str::trim in the place of str::trim_start.
invoke_TrimBoth(args) ==
    IF Len(args) # 1 THEN wrong_arg_count(1, Len(args))
    ELSE IF args[1].t = "String" THEN StringValue(trim_end(trim_start(args[1].s)))
    ELSE type_mismatch("String", args[1])

\* TrimLFn::invoke.
invoke(args) ==
    IF Len(args) # 1 THEN wrong_arg_count(1, Len(args))
    ELSE IF args[1].t = "String" THEN StringValue(trim_start(args[1].s))
    ELSE type_mismatch("String", args[1])

\* The chars of the sample strings.
CharSamples == {" ", "TAB", "NBSP", "h", "o"}

\* The strings of at most n sample chars.
RECURSIVE StringsUpTo(_)
StringsUpTo(n) ==
    IF n = 0 THEN {<<>>}
    ELSE LET shorter == StringsUpTo(n - 1) IN
         shorter \cup {Append(t, c) : t \in shorter, c \in CharSamples}

\* The string of the test triml: " \r \t  hello   \n".
TestString ==
    <<" ", "CR", " ", "TAB", " ", " ", "h", "e", "l", "l", "o", " ", " ", " ", "LF">>

ValueSamples ==
    {StringValue(t) : t \in StringsUpTo(MaxStrLen) \cup {TestString}}
        \cup {I32Value(7), NilValue}

\* The argument vectors invoke is called with: none, one, two arguments.
ArgLists ==
    {<<>>} \cup {<<v>> : v \in ValueSamples}
        \cup {<<v, w>> : v, w \in {StringValue(<<" ", "h">>), I32Value(7)}}

(***************************************************************************)
(* Server::run.                                                            *)
(***************************************************************************)
InitServer ==
    /\ pc = "bind"
    /\ sessions = EmptyMap
    /\ buffer = <<>>
    /\ req = NoReq
    /\ resp = NoResp
    /\ out = <<>>
    /\ reads = 0
    /\ panic = ""
    /\ repls = 0
    /\ hist = <<>>
    /\ bytes_received = -1
    /\ accepts = 0

\* The server starts; no call of TrimLFn::invoke is under way.
Init ==
    /\ InitServer
    /\ tpc = "idle"
    /\ targs = <<>>
    /\ tret = NoValue

\* TcpListener::bind(addr)?
Bind ==
    /\ pc = "bind"
    /\ pc' = "accept"
    /\ UNCHANGED <<sessions, buffer, req, resp, out, reads, panic, repls, hist>>
    /\ UNCHANGED <<bytes_received, accepts, trimlVars>>

\* listener.accept()? and Server::new().
Accept ==
    /\ pc = "accept"
    /\ pc' = "read"
    /\ sessions' = EmptyMap
    /\ accepts' = accepts + 1
    /\ UNCHANGED <<buffer, req, resp, out, reads, panic, repls, hist>>
    /\ UNCHANGED <<bytes_received, trimlVars>>

\* A `?` on bind, accept, read or write returns the I/O error from run.
IoError ==
    /\ pc \in {"bind", "accept", "read", "write"}
    /\ pc' = "returned_err"
    /\ UNCHANGED <<sessions, buffer, req, resp, out, reads, panic, repls, hist>>
    /\ UNCHANGED <<bytes_received, accepts, trimlVars>>

\* A read of 0 bytes handed to the decoder like any other.
ReadClosed_Decodes ==
    /\ pc = "read"
    /\ bytes_received' = 0
    /\ buffer' = <<>>
    /\ pc' = "decode"
    /\ UNCHANGED <<sessions, req, resp, out, reads, panic, repls, hist>>
    /\ UNCHANGED <<accepts, trimlVars>>

\* A read of 0 bytes followed by the accept of the next client.
ReadClosed_AcceptsNext ==
    /\ pc = "read"
    /\ bytes_received' = 0
    /\ pc' = "accept"
    /\ UNCHANGED <<sessions, buffer, req, resp, out, reads, panic, repls, hist>>
    /\ UNCHANGED <<accepts, trimlVars>>

\* stream.read returned 0: the loop breaks and run returns Ok(()).
ReadClosed ==
    /\ pc = "read"
    /\ bytes_received' = 0
    /\ pc' = "returned_ok"
    /\ UNCHANGED <<sessions, buffer, req, resp, out, reads, panic, repls, hist>>
    /\ UNCHANGED <<accepts, trimlVars>>

\* The read with the size check off by one: 511 bytes are too big already.
ReadBytes_OffByOne ==
    /\ pc = "read"
    /\ reads < MaxReads
    /\ \E b \in Inputs :
        /\ bytes_received' = Len(b)
        /\ buffer' = b
        /\ IF Len(b) >= BufSize - 1
           THEN pc' = "panicked" /\ panic' = "Request was too big!"
           ELSE pc' = "decode" /\ panic' = panic
    /\ reads' = reads + 1
    /\ UNCHANGED <<sessions, req, resp, out, repls, hist, accepts, trimlVars>>

\* stream.read returned the bytes b, 1 .. 512 of them.
ReadBytes ==
    /\ pc = "read"
    /\ reads < MaxReads
    /\ \E b \in Inputs :
        /\ bytes_received' = Len(b)
        /\ buffer' = b
        /\ IF Len(b) = BufSize
           THEN pc' = "panicked" /\ panic' = "Request was too big!"
           ELSE pc' = "decode" /\ panic' = panic
    /\ reads' = reads + 1
    /\ UNCHANGED <<sessions, req, resp, out, repls, hist, accepts, trimlVars>>

\* The step from the decoding with the result r of decode_request:
\* .expect("Request decoding failed") unwraps it or panics.
DecodeWith(r) ==
    /\ pc = "decode"
    /\ req' = r
    /\ IF r.tag = "Ok"
       THEN pc' = "run" /\ panic' = panic
       ELSE /\ pc' = "panicked"
            /\ panic' = IF r.tag = "Err" THEN "Request decoding failed" ELSE r.what
    /\ UNCHANGED <<sessions, buffer, resp, out, reads, repls, hist>>
    /\ UNCHANGED <<bytes_received, accepts, trimlVars>>

\* decode_request(dec).expect("Request decoding failed")
Decode == DecodeWith(decode_request(buffer))

\* decode_request on every input, computed once.
DecodeTable == [b \in Inputs |-> decode_request(b)]

\* server.run_request(req).expect("Request execution failed")
RunRequest ==
    /\ pc = "run"
    /\ \E rng \in RngOutcomes : resp' = RunRequestResponse(req, rng)
    /\ sessions' = RunRequestSessions(sessions, req, repls + 1)
    /\ repls' = repls + 1
    /\ hist' = Append(hist, req.val)
    /\ pc' = "write"
    /\ UNCHANGED <<buffer, req, out, reads, panic>>
    /\ UNCHANGED <<bytes_received, accepts, trimlVars>>

\* The write with the response put before the ones written earlier.
Write_Prepends ==
    /\ pc = "write"
    /\ out' = <<Encode(resp)>> \o out
    /\ buffer' = <<>>
    /\ req' = NoReq
    /\ resp' = NoResp
    /\ bytes_received' = -1
    /\ pc' = "read"
    /\ UNCHANGED <<sessions, reads, panic, repls, hist, accepts, trimlVars>>

\* .to_bencode().expect("Response encoding failed"); stream.write(...)?; the
\* locals of the iteration are dropped.
Write ==
    /\ pc = "write"
    /\ out' = Append(out, Encode(resp))
    /\ buffer' = <<>>
    /\ req' = NoReq
    /\ resp' = NoResp
    /\ bytes_received' = -1
    /\ pc' = "read"
    /\ UNCHANGED <<sessions, reads, panic, repls, hist, accepts, trimlVars>>

Next ==
    \/ Bind
    \/ Accept
    \/ IoError
    \/ ReadClosed
    \/ ReadBytes
    \/ Decode
    \/ RunRequest
    \/ Write

Spec == Init /\ [][Next]_vars

\* The scheduling of Server::run: a sequential program takes its next step
\* whenever it has one, and a read returns once the peer has sent bytes or
\* has closed, which it does after MaxReads reads at the latest.  The
\* fairness of Decode is stated of the same step with its result looked up.
FairSpec ==
    /\ Spec
    /\ WF_vars(Bind)
    /\ WF_vars(Accept)
    /\ WF_vars(ReadClosed)
    /\ WF_vars(DecodeWith(DecodeTable[buffer]))
    /\ WF_vars(RunRequest)
    /\ WF_vars(Write)

(***************************************************************************)
(* A call of TrimLFn::invoke, on argument vectors drawn from ArgLists.     *)
(***************************************************************************)
InitTriml ==
    /\ InitServer
    /\ tpc = "call"
    /\ targs \in ArgLists
    /\ tret = NoValue

Invoke ==
    /\ tpc = "call"
    /\ tret' = invoke(targs)
    /\ tpc' = "returned"
    /\ UNCHANGED <<targs, serverVars>>

NextTriml == Invoke

SpecTriml == InitTriml /\ [][NextTriml]_vars

(***************************************************************************)
(* The claims.                                                             *)
(***************************************************************************)
\* The state right after run_request returned: its response not yet written.
Dispatched == pc = "write"

\* The state after decode_request returned, its result in req.
Decoded == req # NoReq

\* C1: every Clone request with id X is answered Cloned with id = X and
\* status "done", whether or not X was a key of the registry before.
C1_ClonedEchoesId ==
    Dispatched => /\ req.tag = "Ok"
                  /\ resp.id = req.val
                  /\ resp.status = <<"d", "o", "n", "e">>

\* A Clone of an id that was a key already has been answered.
C1_Witness ==
    /\ Dispatched
    /\ hist = <<S_abc, S_abc>>
    /\ resp.id = S_abc

\* C2: right after the dispatch of Clone(id) the registry maps id to the
\* default evaluator this dispatch created, and to no older one; no other key
\* holds that evaluator.
C2_CloneUpserts ==
    Dispatched =>
        /\ req.val \in DOMAIN sessions
        /\ sessions[req.val] = [env |-> "default", inst |-> repls]
        /\ \A k \in DOMAIN sessions : k # req.val => sessions[k].inst < repls

\* The entry of x, created by the first dispatch, has been replaced by the third.
C2_Witness ==
    /\ Dispatched
    /\ hist = <<S_x, S_abc, S_x>>
    /\ sessions[S_x].inst = 3

\* C3: after the dispatch of a Clone the generated identifier is a key of the
\* registry.
C3_NewSessionRegistered == Dispatched => resp.new_session \in DOMAIN sessions

\* C4: a dispatch of Clone(X) right after a dispatch of Clone(X) leaves the key
\* set and the size of the registry as they were, and the entry at X is a
\* default evaluator.
C4_RepeatedCloneKeepsRegistry ==
    [][(pc = "run" /\ pc' = "write" /\ hist # <<>> /\ hist[Len(hist)] = req.val)
           => /\ DOMAIN sessions' = DOMAIN sessions
              /\ Cardinality(DOMAIN sessions') = Cardinality(DOMAIN sessions)
              /\ sessions'[req.val].env = "default"]_vars

\* The same id has been cloned twice in a row and the registry holds one key.
C4_Witness ==
    /\ Dispatched
    /\ Len(hist) = 2
    /\ hist[1] = hist[2]
    /\ Cardinality(DOMAIN sessions) = 1

\* The groups of an identifier: the runs of bytes between its '-'.
RECURSIVE Groups(_, _)
Groups(s, cur) ==
    IF s = <<>> THEN <<cur>>
    ELSE IF Head(s) = "-" THEN <<cur>> \o Groups(Tail(s), <<>>)
    ELSE Groups(Tail(s), Append(cur, Head(s)))

IsLowerHex(g) == \A i \in 1..Len(g) : \E j \in 1..16 : HexDigits[j] = g[i]

RECURSIVE HexValue(_)
HexValue(g) ==
    IF g = <<>> THEN 0
    ELSE 16 * HexValue(SubSeq(g, 1, Len(g) - 1))
             + (CHOOSE j \in 0..15 : HexDigits[j + 1] = g[Len(g)])

\* ^[0-9a-f]{8}-[0-9a-f]{4}-4[0-9a-f]{3}-[89ab][0-9a-f]{3}-[0-9a-f]{12}$
IsUuidV4(s) ==
    LET gs == Groups(s, <<>>) IN
    /\ Len(s) = 36
    /\ Len(gs) = 5
    /\ \A i \in 1..5 : IsLowerHex(gs[i])
    /\ <<Len(gs[1]), Len(gs[2]), Len(gs[3]), Len(gs[4]), Len(gs[5])>> = <<8, 4, 4, 4, 12>>
    /\ gs[3][1] = "4"
    /\ gs[4][1] \in {"8", "9", "a", "b"}

\* C5: every identifier random_uuid returns is 36 bytes long, in the grouping
\* 8-4-4-4-12 of lowercase hexadecimal digits, with the version and variant
\* nibbles of a version-4 UUID.
C5_UuidIsCanonical == Dispatched => IsUuidV4(resp.new_session)

\* C6: the fourth group of every identifier random_uuid returns is a number
\* of four hexadecimal digits in 0x8000 .. 0xbfff.
C6_Group4HasVariantBits ==
    Dispatched =>
        LET gs == Groups(resp.new_session, <<>>) IN
        /\ Len(gs) >= 4
        /\ Len(gs[4]) = 4
        /\ HexValue(gs[4]) \in 32768..49151

\* What the claim says of a dictionary: decided by its op and its id alone.
C7_Expected(d) ==
    IF <<"o", "p">> \notin DOMAIN d THEN [tag |-> "Err", what |-> "Noop", val |-> <<>>]
    ELSE IF d[<<"o", "p">>] # <<"c", "l", "o", "n", "e">>
         THEN [tag |-> "Err", what |-> "UnknownOp", val |-> <<>>]
    ELSE IF <<"i", "d">> \in DOMAIN d
         THEN [tag |-> "Ok", what |-> "Clone", val |-> d[<<"i", "d">>]]
    ELSE [tag |-> "Err", what |-> "KeyNotFound", val |-> <<"i", "d">>]

\* C7: the request read from a string-to-string dictionary is decided by its
\* keys op and id alone: Noop without op, Clone(id) for op = clone with id,
\* KeyNotFound("id") for op = clone without id, UnknownOp for another op;
\* further keys change nothing.
C7_InterpretationByOpAndId ==
    \A d \in SampleDicts :
        (Decoded /\ buffer = EncodeDict(d)) => req = C7_Expected(d)

\* A clone request with two further keys has been read as Clone(x).
C7_Witness ==
    /\ pc = "run"
    /\ buffer = EncodeDict([k \in KeySamples |->
                              IF k = S_op THEN S_clone
                              ELSE IF k = S_session THEN S_abc ELSE S_x])
    /\ req = ReqOk(S_x)

\* C8: a well-formed top-level value that is not a dictionary yields the error
\* UnexpectedObject, and no Request.
C8_NonDictIsUnexpectedObject ==
    (Decoded /\ buffer \in NonDictInputs) =>
        /\ req.tag = "Err"
        /\ req.what = "UnexpectedObject"
        /\ pc = "panicked"

\* A list has been decoded to UnexpectedObject.
C8_Witness ==
    /\ buffer = <<"l">> \o BBytes(S_abc) \o <<"e">>
    /\ req = ReqErr("UnexpectedObject", <<>>)

\* C9: a dictionary value that cannot be read as a UTF-8 string (an integer, a
\* list, a dictionary, a byte string that is not UTF-8) yields the error
\* FailedToReadValue, as a value and without a panic.
C9_BadValueIsTypedError ==
    (Decoded /\ buffer \in NonBytesValueInputs \cup {NonUtf8ValueInput}) =>
        /\ req.tag = "Err"
        /\ req.what = "FailedToReadValue"

\* C10: a read of 1 .. 511 bytes that holds a malformed or unrecognized
\* request never ends the server: only a read that fills the buffer does.
C10_BadRequestIsRecoverable ==
    pc = "panicked" => Len(buffer) = BufSize

\* Server::run has ended: it returned, or the process panicked.
Ended == pc \in {"returned_ok", "returned_err", "panicked"}

\* C11: a read of zero bytes ends the loop normally: run returns Ok, nothing
\* is decoded or dispatched, nothing is written and the registry is as it was;
\* and with the peer closing in the end, run ends.
C11_ZeroReadEndsNormally ==
    /\ [][(pc = "read" /\ bytes_received' = 0)
              => /\ pc' = "returned_ok"
                 /\ panic' = ""
                 /\ UNCHANGED <<sessions, out, hist, req, resp, repls>>]_vars
    /\ <>Ended

\* run has returned Ok after two requests were answered.
C11_Witness ==
    /\ pc = "returned_ok"
    /\ bytes_received = 0
    /\ Len(out) = 2

\* C12: a read that fills the 512-byte buffer aborts before anything is
\* decoded, dispatched or written; a read of 1 .. 511 bytes goes on to the
\* decoding of exactly the bytes received.
C12_FullBufferIsFatal ==
    /\ [](/\ pc = "decode" => (bytes_received \in 1..511 /\ Len(buffer) = bytes_received)
          /\ bytes_received = 512 =>
                 (pc = "panicked" /\ panic = "Request was too big!" /\ req = NoReq))
    /\ [][(pc = "read" /\ bytes_received' >= 1)
              => IF bytes_received' = 512
                 THEN /\ pc' = "panicked"
                      /\ UNCHANGED <<sessions, out, hist, req, resp>>
                 ELSE /\ pc' = "decode"
                      /\ buffer' # <<>>
                      /\ panic' = panic]_vars

\* A read of 511 bytes has been answered and a read of 512 bytes was fatal.
C12_Witness ==
    /\ pc = "panicked"
    /\ bytes_received = 512
    /\ Len(hist) = 1
    /\ Len(hist[1]) = 490
    /\ Len(out) = 1

\* C13: the response to every clone request the server accepts is at most
\* 512 bytes long.
C13_ResponseFitsBuffer == Dispatched => Len(Encode(resp)) <= 512

\* The id a written response echoes.
ResponseId(bytes) == decode_dict(bytes, 2).map[<<"i", "d">>]

\* C14: requests are handled one at a time and in the order read: when a
\* request has been read, every earlier one has been dispatched and answered;
\* the k-th response written echoes the id of the k-th request dispatched; and
\* the entry of an id is the one its last request created.
C14_HandledInArrivalOrder ==
    /\ pc \in {"decode", "run"} => (Len(hist) = reads - 1 /\ Len(out) = reads - 1)
    /\ pc = "write" =>
           (Len(hist) = reads /\ Len(out) = reads - 1 /\ hist[Len(hist)] = req.val)
    /\ pc = "read" => (Len(hist) = reads /\ Len(out) = reads)
    /\ \A k \in 1..Len(out) : ResponseId(out[k]) = hist[k]
    /\ \A id \in DOMAIN sessions :
           /\ hist[sessions[id].inst] = id
           /\ \A j \in 1..Len(hist) : hist[j] = id => j <= sessions[id].inst

\* Three requests with two ids have been answered.
C14_Witness ==
    /\ pc = "read"
    /\ hist = <<S_abc, S_x, S_abc>>
    /\ Len(out) = 3

\* C15: the server accepts one connection in its lifetime and creates its
\* registry, empty, with it; once run has ended nothing happens any more.
C15_SingleAccept ==
    /\ [](/\ accepts <= 1
          /\ pc \in {"bind", "accept"} => accepts = 0
          /\ pc \in {"read", "decode", "run", "write", "returned_ok", "panicked"}
                 => accepts = 1)
    /\ [][/\ accepts' # accepts => (accepts = 0 /\ sessions' = <<>>)
          /\ Ended => UNCHANGED vars]_vars

\* The connection was served and closed, after the one accept.
C15_Witness ==
    /\ pc = "returned_ok"
    /\ accepts = 1
    /\ Len(out) = 1

\* C16: the bytes of a Cloned response decode to a dictionary with the keys
\* id, new-session and status and the values of the response, and encoding
\* that dictionary in this key order gives the same bytes again.
C16_ClonedRoundTrips ==
    Dispatched =>
        LET bytes == Encode(resp)
            d == decode_dict(bytes, 2)
        IN  /\ NextToken(bytes, 1).k = "Dict"
            /\ d.tag = "Ok"
            /\ DOMAIN d.map = {S_id, S_new_session, S_status}
            /\ d.map[S_id] = resp.id
            /\ d.map[S_new_session] = resp.new_session
            /\ d.map[S_status] = <<"d", "o", "n", "e">>
            /\ <<"d">> \o BPair(S_id, d.map[S_id])
                   \o BPair(S_new_session, d.map[S_new_session])
                   \o BPair(S_status, d.map[S_status]) \o <<"e">> = bytes

\* The response to the 511-byte request, 567 bytes long, round-trips.
C16_Witness ==
    /\ Dispatched
    /\ Len(resp.id) = 490
    /\ Len(resp.new_session) = 36

\* C17: invoke with one String returns the String without its leading
\* whitespace and with the rest unchanged; with another number of arguments
\* the wrong-argument-count error; with one argument of another type the
\* type-mismatch error.
C17_TrimlTrimsStart ==
    tpc = "returned" =>
        IF Len(targs) # 1
        THEN tret.t = "WrongArgCount" /\ tret.n = 1 /\ tret.m = Len(targs)
        ELSE IF targs[1].t = "String"
        THEN /\ tret.t = "String"
             /\ \E k \in 0..Len(targs[1].s) :
                    /\ \A i \in 1..k : targs[1].s[i] \in {" ", "TAB", "LF", "CR", "NBSP"}
                    /\ k < Len(targs[1].s) =>
                           targs[1].s[k + 1] \notin {" ", "TAB", "LF", "CR", "NBSP"}
                    /\ tret.s = SubSeq(targs[1].s, k + 1, Len(targs[1].s))
        ELSE tret.t = "TypeMismatch"

\* The call of the test triml has returned "hello   \n".
C17_Witness ==
    /\ tpc = "returned"
    /\ targs = <<StringValue(TestString)>>
    /\ tret = StringValue(<<"h", "e", "l", "l", "o", " ", " ", " ", "LF">>)

\* C18: only a dispatch changes the registry: a read that fails to decode
\* leaves it as it was, and a Clone(id) changes the entry at id alone.
C18_RegistryFrame ==
    [][/\ sessions' # sessions => (pc = "run" /\ pc' = "write")
       /\ (pc = "run" /\ pc' = "write") =>
              /\ DOMAIN sessions' = DOMAIN sessions \cup {req.val}
              /\ \A k \in DOMAIN sessions : k # req.val => sessions'[k] = sessions[k]]_vars

\* A request failed to decode with two sessions in the registry, both kept.
C18_Witness ==
    /\ pc = "panicked"
    /\ panic = "Request decoding failed"
    /\ DOMAIN sessions = {S_abc, S_x}

\* C19: the keys of the registry are the ids of the Clone requests dispatched
\* so far, no more of them than requests; no key ever leaves the registry.
C19_KeysAreDispatchedIds ==
    /\ [](/\ DOMAIN sessions = {hist[i] : i \in 1..Len(hist)}
          /\ Cardinality(DOMAIN sessions) <= Len(hist))
    /\ [][DOMAIN sessions \subseteq DOMAIN sessions']_vars

\* Three requests were dispatched and the registry holds their two ids.
C19_Witness ==
    /\ pc = "returned_ok"
    /\ Len(hist) = 3
    /\ Cardinality(DOMAIN sessions) = 2

\* C20: a read is one request: of two requests that arrive in one read the
\* first alone is decoded and dispatched, and the responses written are as
\* many as the reads handled.
C20_OneRequestPerRead ==
    /\ Len(hist) <= reads
    /\ Len(out) <= Len(hist)
    /\ pc = "read" => Len(out) = reads
    /\ (Decoded /\ buffer = CoalescedInput) => req = ReqOk(S_abc)
    /\ (Dispatched /\ buffer = CoalescedInput /\ reads = 1) =>
           (hist = <<S_abc>> /\ DOMAIN sessions = {S_abc})

\* The two coalesced requests have led to the dispatch of the first alone.
C20_Witness ==
    /\ Dispatched
    /\ buffer = CoalescedInput
    /\ hist = <<S_abc>>
    /\ S_x \notin DOMAIN sessions

====
